---- MODULE Spec2Model ----
(***************************************************************************)
(* The search-then-ask front-ends of SearchShellGUI:                       *)
(*   "GPT"       SearchGPTGUI.py     single-shot, OpenAI backend           *)
(*   "Gemini"    SearchGeminiGUI.py  single-shot, Gemini backend           *)
(*   "Shell"     SearchShellGUI.py   provider switch, deque history        *)
(*   "WebAssist" WebAssistGUI.py     session-state chat, provider switch   *)
(* One user action (a button click, i.e. one Streamlit script run) is      *)
(* followed step by step: constructor, search loop, context loop, answer.  *)
(*                                                                         *)
(* A Python string is a sequence of symbols.  A symbol is one character,   *)
(* or one fixed literal of an f-string ("Source: ") kept as one token.     *)
(***************************************************************************)
EXTENDS Integers, Sequences, FiniteSets, TLC

\* ------------------------------------------------------------- bounds
\* URLs the search backend may yield in one search
MaxResults == 2
\* Send clicks followed in one chat session
MaxSends == 7
\* URLs the search backend may yield per search in the chat-session runs
SessionResults == 1
\* non-blank Send clicks followed in a session with Clear and provider switches
TranscriptSends == 3

\* ---------------------------------------------------- program constants
MaxContent == 2000
SepWidth == 50
HistoryMaxLen == 10
DefaultResults == 3

\* ------------------------------------------------------------ strings
NL == "\n"
WS == {" ", NL}

SetMin(S) == CHOOSE x \in S : \A y \in S : x <= y
SetMax(S) == 0 - SetMin({0 - x : x \in S})

\* str.strip(): leading and trailing whitespace removed
Strip(s) ==
    LET keep == {i \in 1..Len(s) : s[i] \notin WS}
    IN  IF keep = {} THEN <<>> ELSE SubSeq(s, SetMin(keep), SetMax(keep))

\* `not s.strip()`
IsBlank(s) == Strip(s) = <<>>

UpperCase == <<"A", "B", "C", "D", "E", "F", "G", "H", "I", "J", "K", "L", "M",
               "N", "O", "P", "Q", "R", "S", "T", "U", "V", "W", "X", "Y", "Z">>
LowerCase == <<"a", "b", "c", "d", "e", "f", "g", "h", "i", "j", "k", "l", "m",
               "n", "o", "p", "q", "r", "s", "t", "u", "v", "w", "x", "y", "z">>

LowerChar(c) ==
    IF \E i \in 1..Len(UpperCase) : UpperCase[i] = c
    THEN LowerCase[CHOOSE i \in 1..Len(UpperCase) : UpperCase[i] = c]
    ELSE c

\* str.lower()
Lower(s) == [i \in 1..Len(s) |-> LowerChar(s[i])]

\* `t in s` for strings, scanning start positions left to right
RECURSIVE FindFrom(_, _, _)
FindFrom(s, t, i) ==
    IF i + Len(t) - 1 > Len(s) THEN FALSE
    ELSE IF SubSeq(s, i, i + Len(t) - 1) = t THEN TRUE
    ELSE FindFrom(s, t, i + 1)

Contains(s, t) == FindFrom(s, t, 1)

\* sep.join(parts)
RECURSIVE Join(_, _)
Join(parts, sep) ==
    IF parts = <<>> THEN <<>>
    ELSE IF Len(parts) = 1 THEN parts[1]
    ELSE parts[1] \o sep \o Join(Tail(parts), sep)

\* s.split('\n')
RECURSIVE SplitLines(_)
SplitLines(s) ==
    LET nls == {i \in 1..Len(s) : s[i] = NL}
    IN  IF nls = {} THEN <<s>>
        ELSE LET k == SetMin(nls)
             IN  <<SubSeq(s, 1, k - 1)>> \o SplitLines(SubSeq(s, k + 1, Len(s)))

RECURSIVE SelectNonBlankStripped(_)
SelectNonBlankStripped(ls) ==
    IF ls = <<>> THEN <<>>
    ELSE (IF IsBlank(ls[1]) THEN <<>> ELSE <<Strip(ls[1])>>)
         \o SelectNonBlankStripped(Tail(ls))

\* lines = [line.strip() for line in text.split('\n') if line.strip()]; '\n'.join(lines)
CleanLines(text) == Join(SelectNonBlankStripped(SplitLines(text)), <<NL>>)

\* s[:n + 1]
TruncateOneMore(s, n) == SubSeq(s, 1, IF Len(s) < n + 1 THEN Len(s) ELSE n + 1)

\* s[:n]
Truncate(s, n) == SubSeq(s, 1, IF Len(s) < n THEN Len(s) ELSE n)

Separator == [i \in 1..SepWidth |-> "="]

\* ---------------------------------------------------------- exceptions
\* Outcome of a Python call: a returned value, or an exception leaving it
Return(v) == [exc |-> "none", val |-> v]
Raise(e) == [exc |-> e, val |-> <<>>]

\* requests.exceptions.*, all subclasses of RequestException
RequestExceptions == {"Timeout", "ConnectionError", "HTTPError", "JSONDecodeError"}

\* isinstance(e, cls) for the exception classes the handlers name
IsA(e, cls) ==
    \/ cls = "Exception"
    \/ e = cls
    \/ cls = "RequestException" /\ e \in RequestExceptions

\* `except <classes>`: does a handler with these classes catch e
Catches(classes, e) == \E c \in classes : IsA(e, c)

\* ------------------------------------------------------------ the web
Urls == {<<"a">>, <<"b">>}

\* A fetched document as BeautifulSoup sees it: the title element and the
\* elements of the body in document order (tag, classes, the element's own
\* text, the position of its parent element or 0 at the top level).
ElIn(tag, cls, text, up) == [tag |-> tag, cls |-> cls, text |-> text, up |-> up]
El(tag, cls, text) == ElIn(tag, cls, text, 0)

PageArticle ==
    [title |-> <<"string", <<" ", "T", " ">>>>,
     elems |-> << El("nav", {}, <<"N">>),
                  El("article", {}, <<"P", NL, " ", NL, " ", "Q">>),
                  El("footer", {}, <<"F">>) >>]
PageBare ==
    [title |-> <<"absent">>,
     elems |-> << El("p", {}, <<" ", "x", " ">>) >>]
PageEmpty ==
    [title |-> <<"nostring">>,
     elems |-> << El("script", {}, <<"s">>) >>]
PageMain ==
    [title |-> <<"string", <<"T">>>>,
     elems |-> << El("article", {}, <<"A">>),
                  El("div", {"content"}, <<"D">>),
                  El("main", {}, <<"M">>) >>]
PageBlankTitle ==
    [title |-> <<"string", <<" ">>>>,
     elems |-> << El("div", {"x", "main"}, <<"D">>), El("p", {}, <<"x">>) >>]

\* main inside article inside a classed div, noise inside main, and a
\* classed div and a footer after them
PageNested ==
    [title |-> <<"string", <<"T">>>>,
     elems |-> << El("div", {"content"}, <<"X">>),
                  ElIn("nav", {"main"}, <<"N">>, 1),
                  ElIn("article", {}, <<"A">>, 1),
                  ElIn("main", {}, <<" ", "M">>, 3),
                  ElIn("nav", {}, <<"K">>, 4),
                  ElIn("noscript", {}, <<"J">>, 4),
                  ElIn("p", {}, <<"Q", " ">>, 4),
                  El("div", {"main"}, <<"D">>),
                  El("footer", {}, <<"F">>) >>]
\* an empty main element next to an article
PageEmptyMain ==
    [title |-> <<"string", <<"T">>>>,
     elems |-> << El("article", {}, <<"A">>), El("main", {}, <<>>) >>]
\* the only main element lies inside a header; a classed div inside an article
PageMainInHeader ==
    [title |-> <<"string", <<"T">>>>,
     elems |-> << El("header", {}, <<"H">>),
                  ElIn("main", {}, <<"M">>, 1),
                  El("p", {}, <<"x">>),
                  El("article", {}, <<"A">>),
                  ElIn("div", {"article", "wide"}, <<"D">>, 4) >>]
\* classed elements that are not div elements, and an unclassed div
PageSection ==
    [title |-> <<"string", <<"T">>>>,
     elems |-> << El("section", {"content"}, <<"S">>),
                  El("div", {"contents"}, <<"d">>),
                  El("p", {"main"}, <<"x">>) >>]

Pages == {PageArticle, PageBare, PageEmpty, PageMain, PageBlankTitle,
          PageNested, PageEmptyMain, PageMainInHeader, PageSection}

\* documents whose text is longer than the extractor keeps: one line of n
\* characters, and a text whose cut falls right after a line break
LongLine(n) == [i \in 1..n |-> "x"]
PageLong ==
    [title |-> <<"string", <<"L">>>>,
     elems |-> << El("main", {}, LongLine(MaxContent + 1)) >>]
PageLongLines ==
    [title |-> <<"string", <<"L">>>>,
     elems |-> << El("p", {}, <<" ">> \o LongLine(MaxContent - 2)
                                \o <<" ", NL, NL, " ", "y", "z", " ">>) >>]
PageFull ==
    [title |-> <<"string", <<"L">>>>,
     elems |-> << El("article", {}, LongLine(MaxContent)) >>]

\* requests.get(url, timeout=..) followed by raise_for_status()
FetchErrors == {"Timeout", "ConnectionError", "HTTPError"}
Fetched(p) == [err |-> "none", page |-> p]
Failed(e) == [err |-> e, page |-> PageEmpty]
FetchOutcomes == {Failed(e) : e \in FetchErrors} \cup {Fetched(p) : p \in Pages}

\* ---------------------------------------------------- _get_page_title
\* The body of the try block.  soup.title.string is None for a title
\* element without a single string child, and None.strip() raises.
TitleTry(app, url, fo) ==
    IF fo.err # "none" THEN Raise(fo.err)
    ELSE LET t == fo.page.title
         IN  IF app = "WebAssist"
             THEN IF t[1] = "absent" THEN Return(url)
                  ELSE IF t[1] = "nostring" THEN Raise("AttributeError")
                  ELSE Return(Strip(t[2]))
             ELSE IF t[1] = "nostring" THEN Raise("AttributeError")
                  ELSE Return(Strip(IF t[1] = "absent" THEN url ELSE t[2]))

\* a handler that names only the requests exceptions
TitleHandlerNarrow == {"RequestException"}

\* `except Exception` of _get_page_title
TitleHandler == {"Exception"}

get_page_title(app, url, fo) ==
    LET r == TitleTry(app, url, fo)
    IN  IF r.exc # "none" /\ Catches(TitleHandler, r.exc) THEN Return(url) ELSE r

\* ----------------------------------------------------- extract_content
NoiseTags(app) ==
    IF app = "WebAssist" THEN {"script", "style", "nav", "header", "footer"}
    ELSE {"script", "style", "nav", "header", "footer", "iframe", "noscript"}

ContentClasses == {"content", "main", "article"}

\* element j is element i or lies inside it
RECURSIVE IsUnder(_, _, _)
IsUnder(elems, j, i) ==
    j = i \/ (elems[j].up # 0 /\ IsUnder(elems, elems[j].up, i))

\* what element.decompose() leaves in the place of an element
Decomposed == El("", {}, <<>>)

\* for element in soup([...]): element.decompose() -- the noise elements go,
\* with everything inside them
Decompose(app, elems) ==
    [j \in 1..Len(elems) |->
        IF \E i \in 1..j : elems[i].tag \in NoiseTags(app) /\ IsUnder(elems, j, i)
        THEN Decomposed ELSE elems[j]]

\* an element with everything inside it, in document order
RECURSIVE SubtreeFrom(_, _, _)
SubtreeFrom(elems, i, j) ==
    IF j > Len(elems) THEN <<>>
    ELSE (IF IsUnder(elems, j, i) THEN <<elems[j]>> ELSE <<>>)
         \o SubtreeFrom(elems, i, j + 1)

\* soup.find(tag): <<>> is None; a found Tag is truthy even when it is empty.
\* The first matching element in document order, with what lies inside it
FindTag(elems, tag) ==
    LET hit == {i \in 1..Len(elems) : elems[i].tag = tag}
    IN  IF hit = {} THEN <<>> ELSE SubtreeFrom(elems, SetMin(hit), SetMin(hit))

FindDivClass(elems) ==
    LET hit == {i \in 1..Len(elems) :
                   elems[i].tag = "div" /\ elems[i].cls \cap ContentClasses # {}}
    IN  IF hit = {} THEN <<>> ELSE SubtreeFrom(elems, SetMin(hit), SetMin(hit))

\* article tried before main
MainContentArticleFirst(elems) ==
    IF FindTag(elems, "article") # <<>> THEN FindTag(elems, "article")
    ELSE IF FindTag(elems, "main") # <<>> THEN FindTag(elems, "main")
    ELSE FindDivClass(elems)

\* soup.find('main') or soup.find('article') or soup.find('div', {'class': [...]})
MainContent(elems) ==
    IF FindTag(elems, "main") # <<>> THEN FindTag(elems, "main")
    ELSE IF FindTag(elems, "article") # <<>> THEN FindTag(elems, "article")
    ELSE FindDivClass(elems)

\* get_text(separator='\n', strip=True) over a sequence of elements
GetText(elems) ==
    Join(SelectNonBlankStripped([i \in 1..Len(elems) |-> elems[i].text]), <<NL>>)

ExtractTry(app, url, fo) ==
    IF fo.err # "none" THEN Raise(fo.err)
    ELSE LET soup == Decompose(app, fo.page.elems)
             main_content == MainContent(soup)
             text == IF main_content # <<>> THEN GetText(main_content) ELSE GetText(soup)
         IN  Return(Truncate(CleanLines(text), MaxContent))

\* a handler that names only ValueError
ExtractHandlerNarrow == {"ValueError"}

\* `except Exception` of extract_content
ExtractHandler == {"Exception"}

extract_content(app, url, fo) ==
    LET r == ExtractTry(app, url, fo)
    IN  IF r.exc # "none" /\ Catches(ExtractHandler, r.exc) THEN Return(<<>>) ELSE r


\* ------------------------------------------------------- configuration
Providers == {"openai", "gemini"}

\* SearchShellGPT.toml: unreadable, or readable with api keys for some providers
Configs == {[readable |-> FALSE, keys |-> {}]}
             \cup {[readable |-> TRUE, keys |-> k] : k \in SUBSET Providers}

ApiKey(provider) == <<"key:", provider>>

\* a loader that swallows the failure and returns an empty key
load_api_key_swallow(cfg, provider) ==
    IF cfg.readable /\ provider \in cfg.keys
    THEN Return(ApiKey(provider))
    ELSE Return(<<>>)

\* load_api_key / _load_api_key: any failure becomes a RuntimeError
load_api_key(cfg, provider) ==
    IF cfg.readable /\ provider \in cfg.keys
    THEN Return(ApiKey(provider))
    ELSE Raise("RuntimeError")

\* The wrapper / chatbot constructor run for (app, model_type).  The Shell
\* GeminiWebWrapper first runs the OpenAIWebWrapper constructor.
Construct(a, mt, cfg) ==
    CASE a = "GPT" -> load_api_key(cfg, "openai")
      [] a = "Gemini" -> load_api_key(cfg, "gemini")
      [] a = "Shell" /\ mt = "GPT" -> load_api_key(cfg, "openai")
      [] a = "Shell" /\ mt = "Gemini" ->
            IF load_api_key(cfg, "openai").exc # "none"
            THEN load_api_key(cfg, "openai")
            ELSE load_api_key(cfg, "gemini")
      [] a = "WebAssist" /\ mt = "GPT" -> load_api_key(cfg, "openai")
      [] a = "WebAssist" /\ mt = "Gemini" -> load_api_key(cfg, "gemini")

\* ------------------------------------------------------ the LLM backend
LlmOutcomes == {"timeout", "neterr", "http_error", "bad_json",
                "missing_field", "empty_list", "wrong_type", "ok"}

\* text generated by the model
ModelText == <<" ", "A", NL>>

Notice == <<"No context was found from web searches. The model will provide a general response without current information.">>

Msg(role, content) == [role |-> role, content |-> content]

\* full_prompt of the single-shot and Shell answer steps
FullPrompt(prompt, ctx) ==
    <<"Context from web searches:", NL, NL>> \o ctx \o <<NL, NL, "Question: ">>
      \o prompt \o <<NL, NL, "Please provide a comprehensive answer based on the context above. ...">>

\* Steps after the request was built, chat-completion style over openai_async
\* (httpx; no raise_for_status: an error status gives a body without 'choices')
OpenAICall(o) ==
    CASE o = "timeout" -> Raise("ReadTimeout")
      [] o = "neterr" -> Raise("ConnectError")
      [] o = "http_error" -> Raise("KeyError")
      [] o = "bad_json" -> Raise("ValueError")
      [] o = "missing_field" -> Raise("KeyError")
      [] o = "empty_list" -> Raise("IndexError")
      [] o = "wrong_type" -> Raise("TypeError")
      [] o = "ok" -> Return(Strip(ModelText))

OpenAIHandler == {"Exception"}

\* result of an answer step: outcome, plus the request that was sent (<<>>: none)
Answered(r, req) == [exc |-> r.exc, val |-> r.val, request |-> req]

\* the same without the blank-context guard
query_openai_unguarded(prompt, ctx, o) ==
    LET req == << Msg("system", <<"You are a helpful assistant.">>),
                  Msg("user", FullPrompt(prompt, ctx)) >>
        r == OpenAICall(o)
    IN  IF r.exc # "none" /\ Catches(OpenAIHandler, r.exc)
        THEN Answered(Return(<<"Error querying OpenAI: ", r.exc>>), req)
        ELSE Answered(r, req)

\* query_openai_async(prompt, context)
query_openai_async(prompt, ctx, o) ==
    IF IsBlank(ctx) THEN Answered(Return(Notice), <<>>)
    ELSE LET req == << Msg("system", <<"You are a helpful assistant.">>),
                       Msg("user", FullPrompt(prompt, ctx)) >>
             r == OpenAICall(o)
         IN  IF r.exc # "none" /\ Catches(OpenAIHandler, r.exc)
             THEN Answered(Return(<<"Error querying OpenAI: ", r.exc>>), req)
             ELSE Answered(r, req)

\* generate-content style over requests: post, raise_for_status, json
GeminiPost(o) ==
    CASE o = "timeout" -> Raise("Timeout")
      [] o = "neterr" -> Raise("ConnectionError")
      [] o = "http_error" -> Raise("HTTPError")
      [] o = "bad_json" -> Raise("JSONDecodeError")
      [] OTHER -> Return(<<>>)

\* the same over aiohttp
GeminiPostAio(o) ==
    CASE o = "timeout" -> Raise("TimeoutError")
      [] o = "neterr" -> Raise("ClientConnectionError")
      [] o = "http_error" -> Raise("ClientResponseError")
      [] o = "bad_json" -> Raise("ContentTypeError")
      [] OTHER -> Return(<<>>)

\* response_data['candidates'][0]['content']['parts'][0]['text']
GeminiParse(o) ==
    CASE o = "missing_field" -> Raise("KeyError")
      [] o = "empty_list" -> Raise("IndexError")
      [] o = "wrong_type" -> Raise("TypeError")
      [] OTHER -> Return(ModelText)

\* `except (KeyError, IndexError)` around the parse
GeminiParseHandler == {"KeyError", "IndexError"}
\* `except requests.exceptions.RequestException`
GeminiRequestHandler == {"RequestException"}
\* a last handler that repeats the one before it
GeminiLastHandlerNarrow == {"RequestException"}
\* `except Exception`
GeminiLastHandler == {"Exception"}

\* the try body after the request was built: inner try around the parse
GeminiBody(post, o) ==
    IF post.exc # "none" THEN post
    ELSE LET r == GeminiParse(o)
         IN  IF r.exc # "none" /\ Catches(GeminiParseHandler, r.exc)
             THEN Return(<<"Error parsing Gemini response: ", r.exc>>)
             ELSE r

\* query_gemini / query_gemini_async(prompt, context)
query_gemini(prompt, ctx, o) ==
    IF IsBlank(ctx) THEN Answered(Return(Notice), <<>>)
    ELSE LET req == << Msg("user", FullPrompt(prompt, ctx)) >>
             r == GeminiBody(GeminiPost(o), o)
         IN  IF r.exc = "none" THEN Answered(r, req)
             ELSE IF Catches(GeminiRequestHandler, r.exc)
             THEN Answered(Return(<<"Error querying Gemini API: ", r.exc>>), req)
             ELSE IF Catches(GeminiLastHandler, r.exc)
             THEN Answered(Return(<<"Unexpected error: ", r.exc>>), req)
             ELSE Answered(r, req)


\* ------------------------------------------------ WebAssistGUI chat()
Triggers == << <<"s", "e", "a", "r", "c", "h">>,
               <<"l", "o", "o", "k", " ", "u", "p">>,
               <<"f", "i", "n", "d", " ", "o", "u", "t">>,
               <<"w", "h", "a", "t", " ", "i", "s">>,
               <<"w", "h", "o", " ", "i", "s">> >>

\* the same without .lower()
ShouldSearchCaseSensitive(flag, input) ==
    flag \/ \E k \in 1..Len(Triggers) : Contains(input, Triggers[k])

\* should_search or any(trigger in user_input.lower() for trigger in [...])
ShouldSearch(flag, input) ==
    flag \/ \E k \in 1..Len(Triggers) : Contains(Lower(input), Triggers[k])

SystemPrompt == <<"You are a helpful AI assistant with access to web search capabilities. ...">>

\* OpenAIChatbot._build_chat_history: the system prompt, then every stored turn
RECURSIVE TurnsAsMessages(_)
TurnsAsMessages(history) ==
    IF history = <<>> THEN <<>>
    ELSE <<Msg(history[1][1], history[1][2])>> \o TurnsAsMessages(Tail(history))

BuildChatHistoryOpenAI(history) ==
    <<Msg("system", SystemPrompt)>> \o TurnsAsMessages(history)

\* GeminiChatbot._build_chat_history: one string, every stored turn prefixed
RECURSIVE TurnsAsText(_)
TurnsAsText(history) ==
    IF history = <<>> THEN <<>>
    ELSE <<IF history[1][1] = "user" THEN "User: " ELSE "Assistant: ">>
           \o history[1][2] \o <<NL, NL>> \o TurnsAsText(Tail(history))

BuildChatHistoryGemini(history) == SystemPrompt \o <<NL, NL>> \o TurnsAsText(history)

\* a chat() whose handler names only ValueError
ChatHandlerNarrow == {"ValueError"}

\* `except Exception` of chat()
ChatHandler == {"Exception"}

\* What chat() appended to its `messages` list after _build_chat_history
\* returned it (the context message, the user message), given the request
\* it sent; the Gemini chat builds a string and appends to no list.
ChatAppended(history, req) ==
    IF Len(req) > 1 + Len(history)
    THEN [k \in 1..(Len(req) - 1 - Len(history)) |->
             <<req[1 + Len(history) + k].role, req[1 + Len(history) + k].content>>]
    ELSE <<>>

\* _build_chat_history handing back the caller's own list
HistoryAfterChatShared(history, appended) == history \o appended

\* The caller's list once chat() has returned: _build_chat_history starts a
\* new list and copies the turns into it, and chat() appends to that list
\* only, so nothing reaches the list that was passed in.
HistoryAfterChat(history, appended) == history

\* OpenAIChatbot.chat from `messages.append(user)` on; ctx is the joined
\* search context (empty when no search ran)
chat_openai(user_input, history, ctx, o) ==
    LET base == BuildChatHistoryOpenAI(history)
        withctx == IF IsBlank(ctx) THEN base
                   ELSE Append(base, Msg("system",
                          <<"Additional context from web search:", NL, NL>> \o ctx))
        req == Append(withctx, Msg("user", user_input))
        r == OpenAICall(o)
    IN  IF r.exc # "none" /\ Catches(ChatHandler, r.exc)
        THEN Answered(Return(<<"Error: ", r.exc>>), req)
        ELSE Answered(r, req)

\* GeminiChatbot.chat from `conversation += "\nUser: ..."` on
chat_gemini(user_input, history, ctx, o) ==
    LET base == BuildChatHistoryGemini(history)
        withctx == IF IsBlank(ctx) THEN base
                   ELSE base \o <<NL, "Additional context from web search:", NL, NL>> \o ctx
        conversation == withctx \o <<NL, "User: ">> \o user_input \o <<NL, "Assistant: ">>
        req == << Msg("user", conversation) >>
        r == GeminiBody(GeminiPostAio(o), o)
    IN  IF r.exc # "none" /\ Catches(ChatHandler, r.exc)
        THEN Answered(Return(<<"Error: ", r.exc>>), req)
        ELSE Answered(r, req)

\* ------------------------------------------------- context documents
\* an entry only for a URL whose extraction gave content
EntrySkipEmpty(title, url, content) ==
    IF content # <<>>
    THEN <<"Source: ">> \o title \o <<NL, "URL: ">> \o url \o <<NL, NL, "Content:", NL>>
           \o content \o <<NL>> \o Separator \o <<NL>>
    ELSE <<>>

\* one context_entry of generate_context
Entry(title, url, content) ==
    IF content # <<>>
    THEN <<"Source: ">> \o title \o <<NL, "URL: ">> \o url \o <<NL, NL, "Content:", NL>>
           \o content \o <<NL>> \o Separator \o <<NL>>
    ELSE <<"Source: ">> \o title \o <<NL, "URL: ">> \o url \o <<NL>> \o Separator \o <<NL>>

\* "\n".join(context)
JoinEntries(entries) == Join(entries, <<NL>>)

\* "\n\n".join(f"{result['title']}\n{result['body']}" for result in web_results)
ChatContext(results) ==
    Join([i \in 1..Len(results) |-> results[i].title \o <<NL>> \o results[i].body],
         <<NL, NL>>)

Result(url, title, body) == [href |-> url, title |-> title, body |-> body]

\* the new result put first
PrependResult(results, r) == <<r>> \o results

\* results.append({...})
AppendResult(results, r) == Append(results, r)

\* deque(maxlen=10).append
DequeAppend(d, x) ==
    IF Len(d) >= HistoryMaxLen THEN Append(Tail(d), x) ELSE Append(d, x)


\* -------------------------------------------------------------- state
VARIABLES
    app,            \* which front-end script is running
    config,         \* SearchShellGPT.toml
    model_type,     \* the provider radio (Shell, WebAssist); the app's own provider otherwise
    should_search,  \* the "Enable Web Search" checkbox (WebAssist)
    messages,       \* st.session_state.messages (WebAssist)
    chatbot,        \* st.session_state.chatbot (WebAssist)
    chat_history,   \* the deque of main() (Shell)
    turns,          \* every turn appended to the history since it was last cleared
    sends,          \* non-blank Send clicks so far
    run,            \* the script run in progress: position, locals, effects
    call            \* the last helper call made on its own

vars == <<app, config, model_type, should_search, messages, chatbot,
          chat_history, turns, sends, run, call>>

Apps == {"GPT", "Gemini", "Shell", "WebAssist"}
SingleShot == {"GPT", "Gemini"}
ModelTypes == {"GPT", "Gemini"}

IdleRun ==
    [pc |-> "idle", user_input |-> <<>>, num_results |-> 0, backend |-> <<>>,
     results |-> <<>>, extracted |-> <<>>, idx |-> 0, entries |-> <<>>,
     context |-> <<>>, request |-> <<>>, llm |-> "none", response |-> <<>>,
     raised |-> "none", log |-> <<>>, history_in |-> <<>>, history_out |-> <<>>]

NoCall ==
    [fn |-> "none", url |-> <<>>, fo |-> Failed("Timeout"), cfo |-> Failed("Timeout"),
     out |-> Return(<<>>)]

Init ==
    /\ app \in Apps
    /\ config \in Configs
    /\ model_type = (IF app = "Gemini" THEN "Gemini" ELSE "GPT")
    /\ should_search = TRUE
    /\ messages = <<>>
    /\ chatbot = "None"
    /\ chat_history = <<>>
    /\ turns = <<>>
    /\ sends = 0
    /\ run = IdleRun
    /\ call = NoCall

\* between two script runs: the next widget interaction can start one
Ready == run.pc \in {"idle", "done", "crashed"}

ChatbotClass(mt) == IF mt = "GPT" THEN "OpenAIChatbot" ELSE "GeminiChatbot"

\* a handler that names only ValueError
SearchHandlerNarrow == {"ValueError"}

\* `except Exception` of search_web
SearchHandler == {"Exception"}

\* the wrapper was constructed: search_web is entered (or the constructor raised)
Started(r, c) ==
    IF c.exc = "none"
    THEN [r EXCEPT !.pc = "search", !.log = <<"search">>]
    ELSE [r EXCEPT !.pc = "crashed", !.raised = c.exc]

\* search_web returned res
AfterSearch(r, res) ==
    IF app \in SingleShot
    THEN [r EXCEPT !.results = res, !.pc = "context", !.idx = 1]
    ELSE [r EXCEPT !.results = res, !.pc = "answer", !.context = ChatContext(res)]

\* the answer step returned (or raised) a; its LLM call, if one was made,
\* ended as o
Finished(r, a, o) ==
    [r EXCEPT !.request = a.request, !.response = a.val, !.raised = a.exc,
              !.llm = IF a.request # <<>> THEN o ELSE "none",
              !.log = @ \o (IF a.request # <<>> THEN <<"llm">> ELSE <<>>),
              !.pc = IF a.exc = "none" THEN "done" ELSE "crashed"]

ModelName == IF chatbot = "OpenAIChatbot" THEN "GPT" ELSE "Gemini"

\* main() after the answer step: the response is stored in the history
Deliver(r, a, o) ==
    /\ run' = [Finished(r, a, o) EXCEPT
                  !.history_out = IF app = "WebAssist"
                                  THEN HistoryAfterChat(messages, ChatAppended(messages, a.request))
                                  ELSE <<>>]
    /\ IF a.exc # "none" \/ app \in SingleShot
       THEN UNCHANGED <<messages, chat_history, turns>>
       ELSE IF app = "Shell"
       THEN /\ chat_history' = DequeAppend(chat_history, <<"Bot", a.val>>)
            /\ turns' = Append(turns, <<"Bot", a.val>>)
            /\ UNCHANGED messages
       ELSE /\ messages' = Append(HistoryAfterChat(messages, ChatAppended(messages, a.request)),
                                  <<"assistant", <<"[Model: ", ModelName, "] ">> \o a.val>>)
            /\ turns' = Append(turns, <<"assistant", <<"[Model: ", ModelName, "] ">> \o a.val>>)
            /\ UNCHANGED chat_history

\* an exception leaves search_web: chat() of WebAssist catches it, main() of
\* the other front-ends does not
Escape(r, exc) ==
    IF app = "WebAssist" /\ Catches(ChatHandler, exc)
    THEN Deliver(r, Answered(Return(<<"Error: ", exc>>), <<>>), "none")
    ELSE /\ run' = [r EXCEPT !.pc = "crashed", !.raised = exc]
         /\ UNCHANGED <<messages, chat_history, turns>>

\* ------------------------------------------------------------- actions
\* SearchGPTGUI / SearchGeminiGUI main(): the Search button with query q
\* and the number input at n
Search(q, n) ==
    /\ app \in SingleShot
    /\ Ready
    /\ run' = Started([IdleRun EXCEPT !.user_input = q, !.num_results = n],
                      Construct(app, model_type, config))
    /\ UNCHANGED <<app, config, model_type, should_search, messages, chatbot,
                   chat_history, turns, sends, call>>

\* SearchShellGUI main(): a widget other than Send changed; the script
\* reruns and builds a new deque
ShellSelect(mt) ==
    /\ app = "Shell"
    /\ Ready
    /\ model_type' = mt
    /\ chat_history' = <<>>
    /\ run' = [IdleRun EXCEPT !.pc = "done"]
    /\ UNCHANGED <<app, config, should_search, messages, chatbot, turns, sends, call>>

\* SearchShellGUI main(): the form is submitted with input m, the slider at n
ShellSend(m, n) ==
    /\ app = "Shell"
    /\ Ready
    /\ IF IsBlank(m)
       THEN /\ chat_history' = <<>>
            /\ run' = [IdleRun EXCEPT !.pc = "done", !.user_input = m, !.num_results = n]
            /\ UNCHANGED <<turns, sends>>
       ELSE /\ chat_history' = DequeAppend(<<>>, <<"User", m>>)
            /\ turns' = Append(turns, <<"User", m>>)
            /\ sends' = sends + 1
            /\ run' = Started([IdleRun EXCEPT !.user_input = m, !.num_results = n],
                              Construct(app, model_type, config))
    /\ UNCHANGED <<app, config, model_type, should_search, messages, chatbot, call>>

\* WebAssistGUI main() up to the chat interface, the radio at mt: the
\* chatbot is replaced when it is not of the selected class
WaProvider(mt) ==
    IF chatbot = ChatbotClass(mt) THEN Return(<<>>) ELSE Construct("WebAssist", mt, config)

\* a script run that only passes the provider update
WaPlainRun(mt) ==
    LET c == WaProvider(mt)
    IN  /\ chatbot' = (IF c.exc = "none" THEN ChatbotClass(mt) ELSE chatbot)
        /\ run' = [IdleRun EXCEPT !.pc = (IF c.exc = "none" THEN "done" ELSE "crashed"),
                                  !.raised = c.exc]

\* the provider radio is changed
WaSelect(mt) ==
    /\ app = "WebAssist"
    /\ Ready
    /\ model_type' = mt
    /\ WaPlainRun(mt)
    /\ UNCHANGED <<app, config, should_search, messages, chat_history, turns, sends, call>>

\* the "Enable Web Search" checkbox is toggled
WaToggle ==
    /\ app = "WebAssist"
    /\ Ready
    /\ should_search' = ~should_search
    /\ WaPlainRun(model_type)
    /\ UNCHANGED <<app, config, model_type, messages, chat_history, turns, sends, call>>

\* "Clear Chat History": the list is emptied and the script reruns
WaClear ==
    /\ app = "WebAssist"
    /\ Ready
    /\ messages' = <<>>
    /\ turns' = <<>>
    /\ WaPlainRun(model_type)
    /\ UNCHANGED <<app, config, model_type, should_search, chat_history, sends, call>>

\* the Send button with the text input at m
WaSend(m) ==
    /\ app = "WebAssist"
    /\ Ready
    /\ LET c == WaProvider(model_type)
           r0 == [IdleRun EXCEPT !.user_input = m, !.num_results = DefaultResults]
       IN  IF c.exc # "none"
           THEN /\ run' = [r0 EXCEPT !.pc = "crashed", !.raised = c.exc]
                /\ UNCHANGED <<chatbot, messages, turns, sends>>
           ELSE /\ chatbot' = ChatbotClass(model_type)
                /\ IF IsBlank(m)
                   THEN /\ run' = [r0 EXCEPT !.pc = "done"]
                        /\ UNCHANGED <<messages, turns, sends>>
                   ELSE /\ messages' = Append(messages, <<"user", m>>)
                        /\ turns' = Append(turns, <<"user", m>>)
                        /\ sends' = sends + 1
                        /\ run' = IF ShouldSearch(should_search, m)
                                  THEN [r0 EXCEPT !.pc = "search", !.log = <<"search">>,
                                                  !.history_in = Append(messages, <<"user", m>>)]
                                  ELSE [r0 EXCEPT !.pc = "answer",
                                                  !.history_in = Append(messages, <<"user", m>>)]
    /\ UNCHANGED <<app, config, model_type, should_search, chat_history, call>>

\* search_web: the backend yields url; its title (and, in Shell and
\* WebAssist, its content) is fetched before the next URL is asked for
SearchYield(limit, url, tfo, cfo) ==
    /\ run.pc = "search"
    /\ Len(run.backend) < limit
    /\ Len(run.backend) < run.num_results
    /\ LET t == get_page_title(app, url, tfo)
           b == IF app \in SingleShot \/ t.exc # "none"
                THEN Return(<<>>)
                ELSE extract_content(app, url, cfo)
           exc == IF t.exc # "none" THEN t.exc ELSE b.exc
           r1 == [run EXCEPT !.backend = Append(@, url),
                             !.log = @ \o <<"title">> \o
                                     (IF app \notin SingleShot /\ t.exc = "none"
                                      THEN <<"content">> ELSE <<>>)]
       IN  IF exc = "none"
           THEN /\ run' = [r1 EXCEPT !.results = AppendResult(@, Result(url, t.val, b.val))]
                /\ UNCHANGED <<messages, chat_history, turns>>
           ELSE IF Catches(SearchHandler, exc)
           THEN /\ run' = AfterSearch(r1, <<>>)
                /\ UNCHANGED <<messages, chat_history, turns>>
           ELSE Escape(r1, exc)
    /\ UNCHANGED <<app, config, model_type, should_search, chatbot, sends, call>>

\* search_web: the backend has no more URLs; the results are returned
SearchReturn ==
    /\ run.pc = "search"
    /\ run' = AfterSearch(run, run.results)
    /\ UNCHANGED <<app, config, model_type, should_search, messages, chatbot,
                   chat_history, turns, sends, call>>

\* search_web: the backend raises; the handler returns []
SearchError ==
    /\ run.pc = "search"
    /\ LET r1 == [run EXCEPT !.log = @ \o <<"search_error">>]
       IN  IF Catches(SearchHandler, "HTTPError")
           THEN /\ run' = AfterSearch(r1, <<>>)
                /\ UNCHANGED <<messages, chat_history, turns>>
           ELSE Escape(r1, "HTTPError")
    /\ UNCHANGED <<app, config, model_type, should_search, chatbot, sends, call>>

\* generate_context: one iteration of the loop over the results
ContextStep(cfo) ==
    /\ run.pc = "context"
    /\ run.idx <= Len(run.results)
    /\ LET res == run.results[run.idx]
           c == extract_content(app, res.href, cfo)
       IN  run' = IF c.exc = "none"
                  THEN [run EXCEPT !.extracted = Append(@, c.val),
                                   !.entries = Append(@, Entry(res.title, res.href, c.val)),
                                   !.log = @ \o <<"content", "sleep">>,
                                   !.idx = @ + 1]
                  ELSE [run EXCEPT !.pc = "crashed", !.raised = c.exc,
                                   !.log = @ \o <<"content">>]
    /\ UNCHANGED <<app, config, model_type, should_search, messages, chatbot,
                   chat_history, turns, sends, call>>

\* generate_context: the loop is over; the entries are joined
ContextReturn ==
    /\ run.pc = "context"
    /\ run.idx > Len(run.results)
    /\ run' = [run EXCEPT !.context = JoinEntries(run.entries), !.pc = "answer"]
    /\ UNCHANGED <<app, config, model_type, should_search, messages, chatbot,
                   chat_history, turns, sends, call>>

\* the answer step of the front-end, the LLM call ending as o
AnswerOf(o) ==
    CASE app = "GPT" -> query_openai_async(run.user_input, run.context, o)
      [] app = "Gemini" -> query_gemini(run.user_input, run.context, o)
      [] app = "Shell" ->
            IF model_type = "GPT"
            THEN query_openai_async(run.user_input, run.context, o)
            ELSE query_gemini(run.user_input, run.context, o)
      [] app = "WebAssist" ->
            IF chatbot = "OpenAIChatbot"
            THEN chat_openai(run.user_input, messages, run.context, o)
            ELSE chat_gemini(run.user_input, messages, run.context, o)

Answer(o) ==
    /\ run.pc = "answer"
    /\ Deliver(run, AnswerOf(o), o)
    /\ UNCHANGED <<app, config, model_type, should_search, chatbot, sends, call>>

\* a helper called on its own with URL u, the fetch ending as fo
CallTitle(u, fo) ==
    /\ call' = [fn |-> "title", url |-> u, fo |-> fo, cfo |-> fo,
                out |-> get_page_title(app, u, fo)]
    /\ UNCHANGED <<app, config, model_type, should_search, messages, chatbot,
                   chat_history, turns, sends, run>>

CallExtract(u, fo) ==
    /\ call' = [fn |-> "extract", url |-> u, fo |-> fo, cfo |-> fo,
                out |-> extract_content(app, u, fo)]
    /\ UNCHANGED <<app, config, model_type, should_search, messages, chatbot,
                   chat_history, turns, sends, run>>

\* title and content both taken from the outcome of one fetch
FetchPairShared(a, u, tfo, cfo) ==
    <<get_page_title(a, u, tfo).val, extract_content(a, u, tfo).val>>

\* 'title': self._get_page_title(url), 'body': self.extract_content(url):
\* each helper makes its own request (in the single-shot front-ends the
\* second one is made by generate_context)
FetchPair(a, u, tfo, cfo) ==
    <<get_page_title(a, u, tfo).val, extract_content(a, u, cfo).val>>

\* the two fetches made for one URL, the first ending as tfo (5 s timeout),
\* the second as cfo (10 s timeout); a URL serves one document
CallPair(u, tfo, cfo) ==
    /\ (tfo.err = "none" /\ cfo.err = "none") => tfo.page = cfo.page
    /\ call' = [fn |-> "pair", url |-> u, fo |-> tfo, cfo |-> cfo,
                out |-> Return(FetchPair(app, u, tfo, cfo))]
    /\ UNCHANGED <<app, config, model_type, should_search, messages, chatbot,
                   chat_history, turns, sends, run>>

\* ------------------------------------------------------ specifications
Query == <<"q">>
Msgs == { <<"h", "i">>, <<"w", "h", "o", " ", "i", "s">>, <<" ">> }

\* fetch outcomes met while following whole runs
PipelineOutcomes == {Failed(e) : e \in FetchErrors}
                      \cup {Fetched(PageArticle), Fetched(PageEmpty)}

FreshSession == sends = 0

\* One user action at a time in each front-end, from a fresh session
Next ==
    \/ \E n \in 1..MaxResults : Search(Query, n)
    \/ \E mt \in ModelTypes : ShellSelect(mt)
    \/ \E m \in Msgs, n \in 1..MaxResults : FreshSession /\ ShellSend(m, n)
    \/ \E mt \in ModelTypes : WaSelect(mt)
    \/ WaToggle
    \/ WaClear
    \/ \E m \in Msgs : FreshSession /\ WaSend(m)
    \/ \E u \in Urls, tfo \in PipelineOutcomes,
          cfo \in (IF app \in SingleShot THEN {Failed("Timeout")} ELSE PipelineOutcomes) :
            SearchYield(MaxResults, u, tfo, cfo)
    \/ SearchReturn
    \/ SearchError
    \/ \E cfo \in PipelineOutcomes : ContextStep(cfo)
    \/ ContextReturn
    \/ \E o \in LlmOutcomes : Answer(o)

Spec == Init /\ [][Next]_vars

\* The two helpers on their own, over every URL and fetch outcome
NextHelpers ==
    \/ \E u \in Urls, fo \in FetchOutcomes : CallTitle(u, fo)
    \/ \E u \in Urls, fo \in FetchOutcomes : CallExtract(u, fo)
    \/ \E u \in Urls, tfo \in FetchOutcomes, cfo \in FetchOutcomes : CallPair(u, tfo, cfo)

SpecHelpers == Init /\ [][NextHelpers]_vars

\* Whole runs under failures of every step: a fetch that times out, fails
\* to connect or is refused, one that returns a document with or without
\* text; an LLM call that answers, times out, or returns an error status
LiveOutcomes == PipelineOutcomes
LiveLlm == {"ok", "timeout", "http_error"}

\* A script run that has started goes on: Streamlit runs main() to its end,
\* every request has a timeout and the search backend yields finitely many
\* URLs, so each step of the run is eventually taken.
RunStep ==
    \/ \E u \in Urls, tfo \in LiveOutcomes,
          cfo \in (IF app \in SingleShot THEN {Failed("Timeout")} ELSE LiveOutcomes) :
            SearchYield(MaxResults, u, tfo, cfo)
    \/ SearchReturn
    \/ SearchError
    \/ \E cfo \in LiveOutcomes : ContextStep(cfo)
    \/ ContextReturn
    \/ \E o \in LiveLlm : Answer(o)

NextLive ==
    \/ \E n \in 1..MaxResults : Search(Query, n)
    \/ \E m \in Msgs, n \in 1..MaxResults : FreshSession /\ ShellSend(m, n)
    \/ WaToggle
    \/ \E m \in Msgs : FreshSession /\ WaSend(m)
    \/ RunStep

SpecLive == Init /\ [][NextLive]_vars /\ WF_vars(RunStep)


\* Chat sessions of several exchanges; the k-th message sent is "m" k
Digits == <<"1", "2", "3", "4", "5", "6", "7", "8", "9">>
SessionMsg == <<"m", Digits[sends + 1]>>
SessionUrls == {<<"a">>}
SessionOutcomes == {Failed("Timeout"), Fetched(PageArticle)}
SessionLlm == {"ok", "timeout"}

\* a session with both keys configured, the provider radio already set
InitSession ==
    /\ app \in {"Shell", "WebAssist"}
    /\ config = [readable |-> TRUE, keys |-> Providers]
    /\ model_type \in ModelTypes
    /\ should_search = TRUE
    /\ messages = <<>>
    /\ chatbot = "None"
    /\ chat_history = <<>>
    /\ turns = <<>>
    /\ sends = 0
    /\ run = IdleRun
    /\ call = NoCall

NextSession ==
    \/ sends < MaxSends /\ ShellSend(SessionMsg, SessionResults)
    \/ sends < MaxSends /\ WaSend(SessionMsg)
    \/ WaToggle
    \/ \E u \in SessionUrls, tfo \in SessionOutcomes, cfo \in SessionOutcomes :
            SearchYield(SessionResults, u, tfo, cfo)
    \/ SearchReturn
    \/ \E o \in SessionLlm : Answer(o)

SpecSession == InitSession /\ [][NextSession]_vars

\* The trigger heuristic of the WebAssist chat over many messages
WhoIsThePresident ==
    <<"w", "h", "o", " ", "i", "s", " ", "t", "h", "e", " ",
      "p", "r", "e", "s", "i", "d", "e", "n", "t">>

TriggerCores ==
    { <<"w", "h", "o", " ", "i", "s">>, <<"W", "H", "O", " ", "I", "S">>,
      <<"W", "h", "o", " ", "I", "s">>, <<"w", "h", "o", "i", "s">>,
      <<"w", "h", "o", " ", " ", "i", "s">>, <<"i", "s", " ", "w", "h", "o">>,
      <<"w", "h", "a", "t", " ", "i", "s">>, <<"W", "h", "a", "t", " ", "i", "s">>,
      <<"w", "h", "a", "t", "i", "s", "o", "e", "v", "e", "r">>,
      <<"s", "e", "a", "r", "c", "h">>, <<"S", "E", "A", "R", "C", "H">>,
      <<"s", "e", "a", "r", " ", "c", "h">>,
      <<"l", "o", "o", "k", " ", "u", "p">>, <<"l", "o", "o", "k", "u", "p">>,
      <<"L", "o", "o", "k", " ", "U", "p">>,
      <<"f", "i", "n", "d", " ", "o", "u", "t">>, <<"f", "i", "n", "d">>,
      <<"F", "I", "N", "D", " ", "o", "u", "t">>,
      <<"h", "i">> }

TriggerMsgs ==
    {WhoIsThePresident}
      \cup {pre \o core \o post : pre \in {<<>>, <<"r", "e">>},
                                  core \in TriggerCores,
                                  post \in {<<>>, <<" ", "x">>}}

InitTrigger ==
    /\ Init
    /\ app = "WebAssist"
    /\ config = [readable |-> TRUE, keys |-> Providers]

NextTrigger ==
    \/ \E m \in TriggerMsgs : FreshSession /\ WaSend(m)
    \/ \E mt \in ModelTypes : WaSelect(mt)
    \/ WaToggle
    \/ \E u \in Urls, tfo \in SessionOutcomes, cfo \in SessionOutcomes :
            SearchYield(SessionResults, u, tfo, cfo)
    \/ SearchReturn
    \/ \E o \in SessionLlm : Answer(o)

SpecTrigger == InitTrigger /\ [][NextTrigger]_vars

\* Sessions of the WebAssist chat under every configuration: Send with a
\* message or a blank input, Clear Chat History, the provider radio, the
\* search checkbox
InitTranscript ==
    /\ Init
    /\ app = "WebAssist"

NextTranscript ==
    \/ sends < TranscriptSends /\ WaSend(SessionMsg)
    \/ WaSend(<<" ">>)
    \/ WaClear
    \/ \E mt \in ModelTypes : WaSelect(mt)
    \/ WaToggle
    \/ \E u \in SessionUrls, tfo \in SessionOutcomes, cfo \in SessionOutcomes :
            SearchYield(SessionResults, u, tfo, cfo)
    \/ SearchReturn
    \/ SearchError
    \/ \E o \in SessionLlm : Answer(o)

SpecTranscript == InitTranscript /\ [][NextTranscript]_vars

\* Runs over documents longer than the extractor keeps
LongOutcomes ==
    {Failed("Timeout"), Fetched(PageArticle), Fetched(PageLong),
     Fetched(PageLongLines), Fetched(PageFull)}
LongPipelineOutcomes == {Failed("Timeout"), Fetched(PageLong), Fetched(PageLongLines)}

InitLong ==
    /\ Init
    /\ config = [readable |-> TRUE, keys |-> Providers]

\* either the extractor is called on its own, or a whole run is followed
NextLong ==
    \/ \E n \in 1..MaxResults : call = NoCall /\ Search(Query, n)
    \/ \E n \in 1..MaxResults : call = NoCall /\ FreshSession /\ ShellSend(Query, n)
    \/ call = NoCall /\ FreshSession /\ WaSend(Query)
    \/ \E u \in SessionUrls, cfo \in LongPipelineOutcomes :
            SearchYield(MaxResults, u, Fetched(PageLong), cfo)
    \/ SearchReturn
    \/ \E cfo \in LongPipelineOutcomes : ContextStep(cfo)
    \/ ContextReturn
    \/ Answer("ok")
    \/ \E fo \in LongOutcomes : run.pc = "idle" /\ CallExtract(<<"a">>, fo)

SpecLong == InitLong /\ [][NextLong]_vars


\* ============================================================== claims
\* search_web was entered in this run
Searched == run.log # <<>> /\ run.log[1] = "search"

\* the request carries web context with its grounding instruction
Grounded(req) ==
    \E i \in 1..Len(req) : \E j \in 1..Len(req[i].content) :
        req[i].content[j] \in {"Context from web searches:",
                               "Additional context from web search:"}

HasNotice(resp) == \E j \in 1..Len(resp) : resp[j] = Notice[1]

\* the search step of this run returned no URL and the context was built
C1_ZeroUrls == Searched /\ run.results = <<>> /\ run.pc \in {"answer", "done"}

IsTrimOf(v, s) ==
    \/ v = <<>> /\ \A i \in 1..Len(s) : s[i] \in WS
    \/ /\ v # <<>>
       /\ v[1] \notin WS
       /\ v[Len(v)] \notin WS
       /\ \E i \in 1..Len(s) :
            /\ i + Len(v) - 1 <= Len(s)
            /\ SubSeq(s, i, i + Len(v) - 1) = v
            /\ \A j \in 1..Len(s) : (j < i \/ j > i + Len(v) - 1) => s[j] \in WS

\* C2: for every URL and every fetch outcome the title helper returns a
\* string and never raises: the URL itself when the fetch failed or the
\* document has no usable title, the trimmed title otherwise; the content
\* extractor never raises and returns the empty string when the fetch failed.
C2_HelpersNeverRaise ==
    /\ call.fn = "title" =>
         /\ call.out.exc = "none"
         /\ (call.fo.err # "none" \/ call.fo.page.title[1] # "string")
               => call.out.val = call.url
         /\ (call.fo.err = "none" /\ call.fo.page.title[1] = "string")
               => IsTrimOf(call.out.val, call.fo.page.title[2])
    /\ call.fn = "extract" =>
         /\ call.out.exc = "none"
         /\ call.fo.err # "none" => call.out.val = <<>>

\* a fetched document whose title element has no string: the URL comes back
C2_Witness ==
    /\ call.fn = "title"
    /\ call.fo.err = "none"
    /\ call.fo.page.title[1] = "nostring"
    /\ call.out = Return(call.url)


DiagnosticPrefixes ==
    {"Error querying OpenAI: ", "Error querying Gemini API: ", "Unexpected error: ",
     "Error parsing Gemini response: ", "Error: "}

\* C3: the answer step never raises; every failure of the LLM call (error
\* status, network error, timeout, invalid JSON, missing field, empty list,
\* wrongly typed field) comes back as a diagnostic string, in every front-end.
C3_AnswerNeverRaises ==
    run.llm # "none" =>
        /\ run.raised = "none"
        /\ run.pc = "done"
        /\ run.llm # "ok" =>
             /\ Len(run.response) = 2
             /\ run.response[1] \in DiagnosticPrefixes

\* a wrongly typed field in the Gemini response passes the inner handler
\* and the RequestException handler and is caught by the last one
C3_Witness ==
    /\ app = "Gemini"
    /\ run.llm = "wrong_type"
    /\ run.response = <<"Unexpected error: ", "TypeError">>

IsFetch(e) == e \in {"title", "content"}

\* the fetches and delays of the run, in order
FetchesAndDelays == SelectSeq(run.log, LAMBDA e : IsFetch(e) \/ e = "sleep")

\* C4 as claimed: in one context-building run over n URLs there are exactly
\* n-1 delays (none for n = 0), none before the first fetch, none after the
\* last, and every two consecutive fetches, title fetches included, have a
\* delay between them.
C4_DelaysOnlyBetweenFetches ==
    (app \in SingleShot /\ run.pc \in {"answer", "done"}) =>
        LET ev == FetchesAndDelays
            n == Len(run.results)
        IN  /\ Cardinality({i \in 1..Len(ev) : ev[i] = "sleep"})
                 = (IF n = 0 THEN 0 ELSE n - 1)
            /\ ev # <<>> => ev[1] # "sleep" /\ ev[Len(ev)] # "sleep"
            /\ \A i \in 1..(Len(ev) - 1) : ~(IsFetch(ev[i]) /\ IsFetch(ev[i + 1]))


\* the last n elements of s
LastN(s, n) == IF Len(s) <= n THEN s ELSE SubSeq(s, Len(s) - n + 1, Len(s))

\* the history a chat front-end retains
RetainedHistory == IF app = "Shell" THEN chat_history ELSE messages

\* C5 as claimed: after any sequence of sends the retained history holds at
\* most 10 turns, namely the 10 most recent turns appended (all of them when
\* fewer), in their order, and they survive from one interaction to the next.
C5_HistoryKeepsLastTen ==
    app \in {"Shell", "WebAssist"} =>
        /\ Len(RetainedHistory) <= HistoryMaxLen
        /\ RetainedHistory = LastN(turns, HistoryMaxLen)

\* turns of earlier exchanges carried by a WebAssist request: the role-tagged
\* entries, less the two for the current message (its stored copy and the
\* new user entry) and, in the Gemini text, the closing "Assistant: " prompt
TurnsCarried(req) ==
    IF Len(req) = 1
    THEN Cardinality({j \in 1..Len(req[1].content) :
                         req[1].content[j] \in {"User: ", "Assistant: "}}) - 3
    ELSE Cardinality({i \in 1..Len(req) : req[i].role # "system"}) - 2

\* C6 as claimed: the prior turns placed into one LLM request of the chat
\* variant stay within a fixed window (the 10 of the history cap), however
\* many turns have been exchanged.
C6_BoundedWindow ==
    (app = "WebAssist" /\ run.request # <<>>) =>
        TurnsCarried(run.request) <= HistoryMaxLen

C7_Phrases ==
    { <<"s", "e", "a", "r", "c", "h">>, <<"l", "o", "o", "k", " ", "u", "p">>,
      <<"f", "i", "n", "d", " ", "o", "u", "t">>, <<"w", "h", "a", "t", " ", "i", "s">>,
      <<"w", "h", "o", " ", "i", "s">> }

\* some phrase occurs in the message at some position, letter case ignored
HasPhrase(input) ==
    \E ph \in C7_Phrases : \E i \in 1..Len(input) :
        /\ i + Len(ph) - 1 <= Len(input)
        /\ \A j \in 1..Len(ph) : LowerChar(input[i + j - 1]) = ph[j]

\* C7: a chat turn invokes web search if and only if the search flag is set
\* or the lower-cased message contains one of the five phrases; without
\* either, no search and no page fetch is made.
C7_SearchIffFlagOrTrigger ==
    (/\ app = "WebAssist"
     /\ run.pc \in {"search", "answer", "done"}
     /\ \E i \in 1..Len(run.user_input) : run.user_input[i] \notin WS) =>
        /\ Searched <=> (should_search \/ HasPhrase(run.user_input))
        /\ ~(should_search \/ HasPhrase(run.user_input)) =>
              \A i \in 1..Len(run.log) : ~IsFetch(run.log[i]) /\ run.log[i] # "search"

\* "who is the president" with the flag off: a search with a page fetch
C7_Witness ==
    /\ app = "WebAssist"
    /\ run.user_input = WhoIsThePresident
    /\ ~should_search
    /\ Searched
    /\ \E i \in 1..Len(run.log) : IsFetch(run.log[i])


\* the k-th smallest element of a set of numbers
Nth(S, k) == CHOOSE x \in S : Cardinality({y \in S : y < x}) = k - 1

\* the blocks of a context document: each runs from a "Source: " label to
\* the next one
BlockStarts(doc) == {i \in 1..Len(doc) : doc[i] = "Source: "}
NumBlocks(doc) == Cardinality(BlockStarts(doc))
Block(doc, k) ==
    SubSeq(doc, Nth(BlockStarts(doc), k),
           IF k < NumBlocks(doc) THEN Nth(BlockStarts(doc), k + 1) - 1 ELSE Len(doc))

\* what a block holds between its URL line and its separator line
BlockMiddle(b, title, url) ==
    LET from == 1 + Len(title) + 2 + Len(url) + 1
        seps == {i \in 1..Len(b) : b[i] = "="}
    IN  IF seps = {} THEN SubSeq(b, from, Len(b))
        ELSE SubSeq(b, from, SetMin(seps) - 1)

\* the block opens with the source title and the URL
BlockHead(b, title, url) ==
    /\ Len(b) >= 1 + Len(title) + 2 + Len(url)
    /\ SubSeq(b, 1, 1 + Len(title) + 2 + Len(url))
         = <<"Source: ">> \o title \o <<NL, "URL: ">> \o url

\* the block closes with one separator line of SepWidth "="
BlockSeparator(b) ==
    LET seps == {i \in 1..Len(b) : b[i] = "="}
    IN  /\ Cardinality(seps) = SepWidth
        /\ SetMax(seps) - SetMin(seps) = SepWidth - 1
        /\ \A i \in (SetMax(seps) + 1)..Len(b) : b[i] = NL

\* a single-shot run whose context document is built
ContextBuilt == app \in SingleShot /\ run.pc \in {"answer", "done"}

\* C8 as claimed: every URL returned by search has exactly one block of
\* source title, URL, content and separator line, and where extraction gave
\* the empty string the block carries an explicit indicator in place of the
\* content.
C8_Original ==
    ContextBuilt =>
        /\ NumBlocks(run.context) = Len(run.results)
        /\ \A k \in 1..Len(run.results) :
             LET b == Block(run.context, k)
                 r == run.results[k]
             IN  /\ BlockHead(b, r.title, r.href)
                 /\ BlockSeparator(b)
                 /\ \E i \in 1..Len(BlockMiddle(b, r.title, r.href)) :
                        BlockMiddle(b, r.title, r.href)[i] \notin WS

\* C8 as amended: every URL returned by search has exactly one block of
\* source title, URL and separator line; the block has a "Content:" section
\* holding the extracted text exactly when extraction gave a non-empty
\* string, and otherwise nothing but a line break between the URL line and
\* the separator: a failed URL shows by the absence of the section.
C8_OneBlockPerUrl ==
    ContextBuilt =>
        /\ NumBlocks(run.context) = Len(run.results)
        /\ \A k \in 1..Len(run.results) :
             LET b == Block(run.context, k)
                 r == run.results[k]
                 c == run.extracted[k]
             IN  /\ BlockHead(b, r.title, r.href)
                 /\ BlockSeparator(b)
                 /\ BlockMiddle(b, r.title, r.href)
                      = (IF c = <<>> THEN <<NL>>
                         ELSE <<NL, NL, "Content:", NL>> \o c \o <<NL>>)

\* two URLs, the first without content, the second with
C8_Witness ==
    /\ ContextBuilt
    /\ Len(run.results) = 2
    /\ run.extracted[1] = <<>>
    /\ run.extracted[2] # <<>>

\* the URL line of a block
BlockUrl(b) ==
    LET at == SetMin({i \in 1..Len(b) : b[i] = "URL: "})
        nl == SetMin({i \in (at + 1)..Len(b) : b[i] = NL})
    IN  SubSeq(b, at + 1, nl - 1)

\* where the k-th "title\nbody" piece of a joined chat context starts
RECURSIVE PieceStart(_, _)
PieceStart(results, k) ==
    IF k = 1 THEN 1
    ELSE PieceStart(results, k - 1)
           + Len(results[k - 1].title) + 1 + Len(results[k - 1].body) + 2

\* C9: the blocks of the context document follow the order in which the
\* search backend yielded the URLs, whatever fetches failed: one block per
\* URL, none dropped, duplicated or moved.
C9_BlocksInSearchOrder ==
    (run.pc \in {"answer", "done"} /\ Searched
       /\ \A i \in 1..Len(run.log) : run.log[i] # "search_error") =>
        /\ Len(run.results) = Len(run.backend)
        /\ \A k \in 1..Len(run.backend) : run.results[k].href = run.backend[k]
        /\ IF app \in SingleShot
           THEN /\ NumBlocks(run.context) = Len(run.backend)
                /\ \A k \in 1..Len(run.backend) :
                      BlockUrl(Block(run.context, k)) = run.backend[k]
           ELSE /\ \A k \in 1..Len(run.results) :
                      LET piece == run.results[k].title \o <<NL>> \o run.results[k].body
                          at == PieceStart(run.results, k)
                      IN  SubSeq(run.context, at, at + Len(piece) - 1) = piece
                /\ Len(run.context)
                     = (IF run.results = <<>> THEN 0
                        ELSE PieceStart(run.results, Len(run.results) + 1) - 3)

\* two different URLs, the title fetch of the first failed, both in order
C9_Witness ==
    /\ app = "GPT"
    /\ run.pc = "done"
    /\ run.backend = << <<"b">>, <<"a">> >>
    /\ Len(run.results) = 2
    /\ run.results[1].title = <<"b">>
    /\ run.extracted = << <<>>, <<"P", NL, "Q">> >>

KeyAvailable(provider) == config.readable /\ provider \in config.keys
SelectedProvider == IF model_type = "GPT" THEN "openai" ELSE "gemini"

\* the script run at hand constructs the answer generator
Constructs ==
    IF app = "Shell"
    THEN \E i \in 1..Len(run.user_input) : run.user_input[i] \notin WS
    ELSE run.pc # "idle"

\* C10: with the selected provider's key missing or the configuration
\* unreadable, the constructor's configuration error reaches the caller and
\* that user action issues no search, no page fetch and no LLM request.
C10_MissingKeyFailsFast ==
    (Constructs /\ ~KeyAvailable(SelectedProvider)) =>
        /\ run.pc = "crashed"
        /\ run.raised = "RuntimeError"
        /\ run.log = <<>>
        /\ run.request = <<>>

\* a Send in the WebAssist chat with Gemini selected and no gemini key
C10_Witness ==
    /\ app = "WebAssist"
    /\ model_type = "Gemini"
    /\ config = [readable |-> TRUE, keys |-> {"openai"}]
    /\ run.user_input = <<"h", "i">>
    /\ run.raised = "RuntimeError"

\* the search backend raised during this run
BackendFailed == \E i \in 1..Len(run.log) : run.log[i] = "search_error"

CleanedText(a, page) ==
    LET soup == Decompose(a, page.elems)
        main_content == MainContent(soup)
    IN  CleanLines(IF main_content # <<>> THEN GetText(main_content) ELSE GetText(soup))

\* p is the first n characters of s, all of s when it is shorter
IsPrefixOfAtMost(p, s, n) ==
    /\ Len(p) = (IF Len(s) < n THEN Len(s) ELSE n)
    /\ \A i \in 1..Len(p) : p[i] = s[i]

\* the characters of extracted content a run has gathered so far
RECURSIVE SumLen(_)
SumLen(ss) == IF ss = <<>> THEN 0 ELSE Len(ss[1]) + SumLen(Tail(ss))

ExtractedContent ==
    IF app \in SingleShot THEN run.extracted
    ELSE [k \in 1..Len(run.results) |-> run.results[k].body]

\* C12: the content extractor returns at most 2000 characters, the first
\* 2000 of the cleaned text (all of it when shorter), for every document;
\* so the content gathered from n URLs is at most n * 2000 characters.
C12_ContentAtMost2000 ==
    /\ call.fn = "extract" =>
         /\ call.out.exc = "none"
         /\ Len(call.out.val) <= MaxContent
         /\ call.fo.err = "none" =>
              IsPrefixOfAtMost(call.out.val, CleanedText(app, call.fo.page), MaxContent)
    /\ \A k \in 1..Len(ExtractedContent) : Len(ExtractedContent[k]) <= MaxContent
    /\ SumLen(ExtractedContent) <= Len(run.backend) * MaxContent

\* two URLs whose documents are both longer than 2000 characters: the
\* context is built from two full-length extracts
C12_Witness ==
    /\ app = "GPT"
    /\ run.pc = "done"
    /\ Len(run.extracted) = 2
    /\ Len(run.extracted[1]) = MaxContent
    /\ run.extracted[1][MaxContent] = "y"
    /\ run.extracted[2] = LongLine(MaxContent)

\* element j of a document is left after the noise elements are removed
Live(a, elems, j) ==
    \A i \in 1..j : IsUnder(elems, j, i) => elems[i].tag \notin NoiseTags(a)

\* the three kinds of primary content node
IsKind(e, kind) ==
    CASE kind = "main" -> e.tag = "main"
      [] kind = "article" -> e.tag = "article"
      [] kind = "classed div" -> e.tag = "div" /\ e.cls \cap ContentClasses # {}

\* the first live element, in document order, that is of one kind; 0 if none
FirstLive(a, elems, kind) ==
    LET hit == {j \in 1..Len(elems) : Live(a, elems, j) /\ IsKind(elems[j], kind)}
    IN  IF hit = {} THEN 0 ELSE SetMin(hit)

\* the primary content node by the priority of the claim; 0 is the document
PrimaryNode(a, elems) ==
    IF FirstLive(a, elems, "main") # 0 THEN FirstLive(a, elems, "main")
    ELSE IF FirstLive(a, elems, "article") # 0 THEN FirstLive(a, elems, "article")
    ELSE FirstLive(a, elems, "classed div")

\* the first visible character of an element's own text marks the element
HasText(e) == \E i \in 1..Len(e.text) : e.text[i] \notin WS
Mark(e) == e.text[SetMin({i \in 1..Len(e.text) : e.text[i] \notin WS})]
Shows(out, e) == \E i \in 1..Len(out) : out[i] = Mark(e)

\* C13: after the noise elements are removed the extractor takes the first
\* main element, else the first article element, else the first div whose
\* class has one of content, main, article, else the whole document, and
\* its text comes from that node's subtree only: the text of an element
\* shows in the result exactly when the element is left after noise removal
\* and lies inside the chosen node.
C13_PrimaryNodeByPriority ==
    (call.fn = "extract" /\ call.fo.err = "none") =>
        LET elems == call.fo.page.elems
            node == PrimaryNode(app, elems)
        IN  \A j \in 1..Len(elems) :
               HasText(elems[j]) =>
                  (Shows(call.out.val, elems[j])
                     <=> /\ Live(app, elems, j)
                         /\ node # 0 => IsUnder(elems, j, node))

\* a main element inside an article inside a classed div, with noise inside
\* it and a classed div after it: only the text inside main comes back
C13_Witness ==
    /\ call.fn = "extract"
    /\ app = "GPT"
    /\ call.fo = Fetched(PageNested)
    /\ call.out = Return(<<"M", NL, "Q">>)

\* a chat() call of the session-state variant is under way or has returned
InChat ==
    /\ app = "WebAssist"
    /\ run.pc \in {"search", "answer", "done"}
    /\ \E i \in 1..Len(run.user_input) : run.user_input[i] \notin WS

\* C14: chat(user_input, history, flag) leaves the caller's history as it
\* was: during the call and when it has returned, with an answer or with a
\* diagnostic, the stored turns are those passed in, in the same order; the
\* search context and the new query go into the per-call copy only.
C14_HistoryUnchanged ==
    InChat =>
        /\ run.pc \in {"search", "answer"} => messages = run.history_in
        /\ run.pc = "done" =>
             /\ run.history_out = run.history_in
             /\ Len(messages) = Len(run.history_in) + 1
             /\ SubSeq(messages, 1, Len(run.history_in)) = run.history_in

\* the second exchange of an OpenAI chat: search context and query were
\* appended to the request, and the call failed
C14_Witness ==
    /\ InChat
    /\ run.pc = "done"
    /\ chatbot = "OpenAIChatbot"
    /\ Len(run.history_in) = 3
    /\ Grounded(run.request)
    /\ Len(run.request) = 1 + 3 + 2
    /\ run.llm = "timeout"

\* what one shared fetch ending as fo gives the two extractors
Single(a, u, fo) == <<get_page_title(a, u, fo).val, extract_content(a, u, fo).val>>

\* the documents the URL of the call may serve, given what was fetched
ServedPages ==
    {p \in Pages : /\ call.fo.err = "none" => call.fo.page = p
                   /\ call.cfo.err = "none" => call.cfo.page = p}

\* the ways one fetch of a URL serving p can end
Alternatives(p) == {Failed(e) : e \in FetchErrors} \cup {Fetched(p)}

\* some single shared fetch of the URL gives the pair the two fetches gave
Coalescible ==
    \E p \in ServedPages : \E fo \in Alternatives(p) :
        call.out.val = Single(app, call.url, fo)

\* C15 as claimed: for every URL and every combination of outcomes of its
\* two fetches, the (title, content) pair is one that a single shared fetch
\* feeding both extractors could also produce.
C15_Original == call.fn = "pair" => Coalescible

\* exactly one of the two fetches failed
OneFailed == (call.fo.err = "none") # (call.cfo.err = "none")

\* the document gives no title other than the URL, or no content
NoTitleOrNoContent(p) ==
    \/ Single(app, call.url, Fetched(p))[1] = call.url
    \/ Single(app, call.url, Fetched(p))[2] = <<>>

\* C15 as amended: the title comes from the outcome of the title fetch and
\* the content from the outcome of the content fetch; the pair is one a
\* single shared fetch could produce exactly when both fetches ended the
\* same way or the document has no usable title or no content.  When one
\* fetch failed on a document with a title and content, the pair is
\* (title, "") or (URL, content), which no single fetch gives.
C15_PairPerFetch ==
    call.fn = "pair" =>
        /\ call.out.val[1] = Single(app, call.url, call.fo)[1]
        /\ call.out.val[2] = Single(app, call.url, call.cfo)[2]
        /\ Coalescible <=>
             (~OneFailed \/ \E p \in ServedPages : NoTitleOrNoContent(p))

\* the title fetch timed out and the content fetch returned the document:
\* the URL as title next to the document's content
C15_Witness ==
    /\ call.fn = "pair"
    /\ call.fo = Failed("Timeout")
    /\ call.cfo = Fetched(PageArticle)
    /\ call.out.val = <<call.url, <<"P", NL, "Q">>>>
    /\ ~Coalescible

\* a script run is between its constructor and its answer
Running == run.pc \in {"search", "context", "answer"}

CountOf(e) == Cardinality({i \in 1..Len(run.log) : run.log[i] = e})

\* what holds of every run on its way to the answer
C16_Steps ==
    /\ run.pc = "crashed" => run.log = <<>> /\ run.raised = "RuntimeError"
    /\ CountOf("llm") <= 1
    /\ CountOf("llm") = 1 => run.log[Len(run.log)] = "llm" /\ run.pc = "done"
    /\ (run.pc \in {"answer", "done"} /\ Searched /\ ~BackendFailed) =>
          /\ Len(run.results) = Len(run.backend)
          /\ CountOf("title") = Len(run.backend)
          /\ CountOf("content") = Len(run.backend)
          /\ app \in SingleShot => Len(run.extracted) = Len(run.backend)
    /\ run.pc = "done" => run.raised = "none"

\* C16: every run that has constructed its answer generator eventually
\* returns an answer string, whatever fetches time out or fail and whether
\* or not the LLM call fails: no step aborts the run, every URL the search
\* returned is fetched, and the answer step is taken once, after the last
\* fetch, and ends the run.
C16_EventuallyAnswers ==
    /\ []C16_Steps
    /\ [][run.pc = "answer" => run'.pc = "done"]_vars
    /\ [][run'.pc = "answer" => run.pc # "done" \/ run'.log = <<>>]_vars
    /\ Running ~> (run.pc = "done")

\* two URLs, the first content fetch failed, the second did not, and the
\* LLM call timed out: the run still ended with an answer string
C16_Witness ==
    /\ app = "GPT"
    /\ run.pc = "done"
    /\ Len(run.extracted) = 2
    /\ run.extracted[1] = <<>>
    /\ run.extracted[2] # <<>>
    /\ run.llm = "timeout"
    /\ run.response # <<>>

\* how many times the request carries the current user message as a user
\* entry: a role-tagged message in the OpenAI list, a "User: " line in the
\* Gemini conversation text
TimesSent(req, m) ==
    IF Len(req) = 1
    THEN Cardinality({j \in 1..Len(req[1].content) :
                         /\ req[1].content[j] = "User: "
                         /\ j + Len(m) <= Len(req[1].content)
                         /\ SubSeq(req[1].content, j + 1, j + Len(m)) = m})
    ELSE Cardinality({i \in 1..Len(req) : req[i].role = "user" /\ req[i].content = m})

\* C17 as claimed: each LLM request of the session-state chat carries the
\* current user message exactly once, as its final user entry; the copy the
\* orchestrator has just stored in the history is not sent again.
C17_CurrentMessageOnce ==
    (app = "WebAssist" /\ run.request # <<>>) =>
        TimesSent(run.request, run.user_input) = 1

\* the stored transcript goes user, assistant, user, assistant, ...
Alternates(ms) ==
    \A i \in 1..Len(ms) : ms[i][1] = (IF i % 2 = 1 THEN "user" ELSE "assistant")

\* the transcript between user actions and in the middle of a chat turn
C18_Transcript ==
    app = "WebAssist" =>
        /\ Alternates(messages)
        /\ Ready => Len(messages) % 2 = 0
        /\ ~Ready => Len(messages) % 2 = 1

\* C18: after any sequence of Send, Clear Chat History and provider
\* switches the stored transcript has even length and alternates user,
\* assistant from a user turn on: a non-blank Send appends one user turn
\* and then one assistant turn (an answer or a diagnostic), anything else
\* leaves the transcript as it is, except Clear, which empties it.
C18_TranscriptAlternates ==
    /\ []C18_Transcript
    /\ [][sends' = sends + 1 =>
            messages' = Append(messages, <<"user", run'.user_input>>)]_vars
    /\ [][(run.pc = "answer" /\ run'.pc = "done") =>
            /\ Len(messages') = Len(messages) + 1
            /\ SubSeq(messages', 1, Len(messages)) = messages
            /\ messages'[Len(messages')][1] = "assistant"]_vars
    /\ [][(sends' = sends /\ ~(run.pc = "answer" /\ run'.pc = "done")) =>
            (messages' = messages \/ (messages' = <<>> /\ Ready))]_vars
    /\ [][model_type' # model_type => messages' = messages]_vars

\* three exchanges and a Clear before the last one; the last answer, from
\* the Gemini chatbot, is a diagnostic
C18_Witness ==
    /\ app = "WebAssist"
    /\ Ready
    /\ sends = 3
    /\ Len(messages) = 2
    /\ Len(messages[2][2]) >= 4
    /\ messages[2][2][2] = "Gemini"
    /\ messages[2][2][4] = "Error: "

\* C19 as claimed: in the provider-switching front-end, constructing the
\* Gemini answer generator depends on the gemini credential only: with a
\* gemini key configured it succeeds, with or without an openai key, and
\* the key it holds is the gemini one.
C19_GeminiNeedsOnlyGeminiKey ==
    (app = "Shell" /\ model_type = "Gemini" /\ Constructs /\ KeyAvailable("gemini")) =>
        /\ run.pc # "crashed"
        /\ run.raised = "none"
        /\ Construct(app, model_type, config) = Return(ApiKey("gemini"))

====
